---- MODULE Spec2Model ----
(***************************************************************************)
(* Model of the names analytics engine (package namesdata):                *)
(* AggregateNames, Rank, RankFromAggregate, NewNameSampler, Pick,          *)
(* RandomNameFromAggregate(WithTotal) and Trend.                           *)
(*                                                                         *)
(* Strings are sequences of byte codes so that strings.ToUpper,            *)
(* strings.TrimSpace and Go's ordinal "<" on strings are computed, not     *)
(* assumed.  A Go map is a function; the order in which "range" visits     *)
(* its keys is a sequence enumerating the keys, chosen by the caller.      *)
(* float64 values of the sampler are carried as exact numerators over      *)
(* the denominator total.                                                  *)
(***************************************************************************)
EXTENDS Integers, Sequences, FiniteSets, TLC

VARIABLES op,    \* the call that produced the current state
    records,     \* []Record handed to AggregateNames / Rank / Trend
    year,        \* year argument of the last AggregateNames / Rank
    gender,      \* gender argument of the last AggregateNames / Rank / Trend
    aggregated,  \* []NameCount: result of AggregateNames, input of the samplers
    ranks,       \* map[string]int returned by AggregateNames
    name,        \* name argument of the last Rank / RankFromAggregate
    rankRes,     \* (int, NameCount, error) of the last Rank / RankFromAggregate
    pc,          \* position inside NewNameSampler: "idle", "pairing", "returned"
    total,       \* NewNameSampler: local total
    scaled,      \* NewNameSampler: local scaled, as numerators over total
    small,       \* NewNameSampler: worklist small (top of the stack = last)
    large,       \* NewNameSampler: worklist large (top of the stack = last)
    prob,        \* NewNameSampler: local prob, as numerators over total
    alias,       \* NewNameSampler: local alias (indices are 1-based here)
    sampler,     \* (*NameSampler, error) returned by NewNameSampler
    pickRes,     \* (NameCount, error) of the last Pick / RandomNameFromAggregate
    drawn,       \* values the last sampling call took from its *rand.Rand, in order
    count,       \* number of Pick calls the caller makes (generate's -count flag)
    picks,       \* number of Pick calls made so far on the returned sampler
    iters,       \* NewNameSampler: iterations of the pairing loop so far
    probSet,     \* NewNameSampler: how many times each prob[i] has been assigned
    names,       \* names argument of the last Trend
    trendRes,    \* ([]int, []TrendSeries, map[int]int, error) of the last Trend
    yearFilter,  \* runTop: the parsed -year flag
    topN,        \* runTop: the -top flag
    formatFlag,  \* runTop: the -format flag
    topRes,      \* runTop: the report handed to renderReport, and the error returned
    limit,       \* limit argument of the last TopNames
    topNames,    \* []NameCount returned by the last TopNames
    fsRes        \* ([]NameCount, int, error) of the last AggregateFromFS

aggVars == <<records, year, gender, ranks, name, rankRes>>
samplerVars == <<pc, total, scaled, small, large, prob, alias, sampler, pickRes, drawn, count, picks,
                 iters, probSet>>
trendVars == <<names, trendRes>>
topVars == <<yearFilter, topN, formatFlag, topRes>>
dataVars == <<limit, topNames, fsRes>>
vars == <<op, aggregated, aggVars, samplerVars, trendVars, topVars, dataVars>>

(***************************************************************************)
(* Bounds                                                                  *)
(***************************************************************************)
MaxRecs == 2
MaxEntries == 4
MaxWeight == 3
MaxCount == 2

(***************************************************************************)
(* Strings                                                                 *)
(***************************************************************************)
sEmpty == <<>>
sSpace == <<32>>
sA == <<65>>
sB == <<66>>
sC == <<67>>
sF == <<70>>
sM == <<77>>
sa == <<97>>
sb == <<98>>
sm == <<109>>
sSpf == <<32, 102>>

isSpace(c) == c \in {9, 10, 11, 12, 13, 32}

upperRune(c) == IF c >= 97 /\ c <= 122 THEN c - 32 ELSE c

ToUpper(s) == [i \in 1..Len(s) |-> upperRune(s[i])]

RECURSIVE TrimLeft(_)
TrimLeft(s) ==
    IF s # <<>> /\ isSpace(Head(s)) THEN TrimLeft(Tail(s)) ELSE s

RECURSIVE TrimRight(_)
TrimRight(s) ==
    IF s # <<>> /\ isSpace(s[Len(s)]) THEN TrimRight(SubSeq(s, 1, Len(s) - 1)) ELSE s

TrimSpace(s) == TrimRight(TrimLeft(s))

\* Go's s < t on strings: byte-wise lexicographic, a proper prefix is smaller.
RECURSIVE StrLess(_, _)
StrLess(s, t) ==
    IF t = <<>> THEN FALSE
    ELSE IF s = <<>> THEN TRUE
    ELSE IF Head(s) # Head(t) THEN Head(s) < Head(t)
    ELSE StrLess(Tail(s), Tail(t))

(***************************************************************************)
(* Go maps and slices                                                      *)
(***************************************************************************)
EmptyMap == <<>>

MapPut(m, k, v) == [x \in (DOMAIN m) \cup {k} |-> IF x = k THEN v ELSE m[x]]

\* Every order in which "range m" can visit the keys of a map.
RangeOrders(S) ==
    {o \in [1..Cardinality(S) -> S] : \A i, j \in 1..Cardinality(S) : o[i] = o[j] => i = j}

Swap(s, i, j) == [s EXCEPT ![i] = s[j], ![j] = s[i]]

(***************************************************************************)
(* Types                                                                   *)
(***************************************************************************)
NameCount(n, c) == [Name |-> n, Count |-> c]

ZeroNameCount == NameCount(sEmpty, 0)

Record(st, g, y, n, c) == [State |-> st, Gender |-> g, Year |-> y, Name |-> n, Count |-> c]

(***************************************************************************)
(* AggregateNames                                                          *)
(***************************************************************************)
\* Skipped without upper-casing the record's gender.
SkippedRawGender(r, y, g) ==
    \/ y # 0 /\ r.Year # y
    \/ g # sEmpty /\ r.Gender # g

\* The filter of the loop body: TRUE when the record is skipped.
Skipped(r, y, g) ==
    \/ y # 0 /\ r.Year # y
    \/ g # sEmpty /\ ToUpper(r.Gender) # g

\* TotalsLoop keeping the casing of the last record of a key instead of the first.
RECURSIVE TotalsLoopLastCasing(_, _, _, _, _)
TotalsLoopLastCasing(recs, i, y, g, totals) ==
    IF i > Len(recs) THEN totals
    ELSE LET r == recs[i]
             key == ToUpper(r.Name)
             entry == IF key \in DOMAIN totals THEN totals[key] ELSE NameCount(r.Name, 0)
         IN  IF Skipped(r, y, g)
             THEN TotalsLoopLastCasing(recs, i + 1, y, g, totals)
             ELSE TotalsLoopLastCasing(recs, i + 1, y, g,
                             MapPut(totals, key, NameCount(r.Name, entry.Count + r.Count)))

\* for _, r := range records { ... }, from record i on, g already normalised.
RECURSIVE TotalsLoop(_, _, _, _, _)
TotalsLoop(recs, i, y, g, totals) ==
    IF i > Len(recs) THEN totals
    ELSE LET r == recs[i]
             key == ToUpper(r.Name)
             entry == IF key \in DOMAIN totals THEN totals[key] ELSE NameCount(r.Name, 0)
         IN  IF Skipped(r, y, g)
             THEN TotalsLoop(recs, i + 1, y, g, totals)
             ELSE TotalsLoop(recs, i + 1, y, g,
                             MapPut(totals, key, NameCount(entry.Name, entry.Count + r.Count)))

\* less comparing names in descending order on a tie.
aggregatedLessNameDesc(a, b) ==
    IF a.Count = b.Count THEN StrLess(b.Name, a.Name) ELSE a.Count > b.Count

\* less without the tie-break on Name.
aggregatedLessCountOnly(a, b) == a.Count > b.Count

\* The less function handed to sort.Slice.
aggregatedLess(a, b) ==
    IF a.Count = b.Count THEN StrLess(a.Name, b.Name) ELSE a.Count > b.Count

\* sort.Slice on at most 12 elements is insertion sort:
\* for i := 1; i < n; i++ { for j := i; j > 0 && less(j, j-1); j-- { swap(j, j-1) } }
RECURSIVE SortInner(_, _)
SortInner(s, j) ==
    IF j > 1 /\ aggregatedLess(s[j], s[j - 1])
    THEN SortInner(Swap(s, j, j - 1), j - 1)
    ELSE s

RECURSIVE SortOuter(_, _)
SortOuter(s, i) ==
    IF i > Len(s) THEN s ELSE SortOuter(SortInner(s, i), i + 1)

SortSlice(s) == SortOuter(s, 2)

\* for idx, entry := range aggregated { ranks[ToUpper(entry.Name)] = idx + 1 }
RECURSIVE RanksLoop(_, _, _)
RanksLoop(agg, i, rk) ==
    IF i > Len(agg) THEN rk
    ELSE RanksLoop(agg, i + 1, MapPut(rk, ToUpper(agg[i].Name), i))

\* AggregateNames when "range totals" visits the keys in the order given.
AggregateNames(recs, y, g, order) ==
    LET totals == TotalsLoop(recs, 1, y, ToUpper(TrimSpace(g)), EmptyMap)
        appended == [i \in 1..Len(order) |-> totals[order[i]]]
        sorted == SortSlice(appended)
    IN  [aggregated |-> sorted, ranks |-> RanksLoop(sorted, 1, EmptyMap)]

TotalsKeys(recs, y, g) == DOMAIN TotalsLoop(recs, 1, y, ToUpper(TrimSpace(g)), EmptyMap)

(***************************************************************************)
(* RankFromAggregate, Rank                                                 *)
(***************************************************************************)
RankResult(r, e, err) == [rank |-> r, entry |-> e, err |-> err]

\* RankFromAggregate looking the name up as given, not upper-cased.
RankFromAggregateExactCase(agg, rk, n) ==
    IF TrimSpace(n) = sEmpty THEN RankResult(0, ZeroNameCount, "name is required")
    ELSE IF Len(agg) = 0 THEN RankResult(0, ZeroNameCount, "no matching records")
    ELSE IF n \notin DOMAIN rk
         THEN RankResult(0, ZeroNameCount, "not found")
         ELSE RankResult(rk[n], agg[rk[n]], "nil")

\* RankFromAggregate testing name == "" without trimming it.
RankFromAggregateUntrimmedCheck(agg, rk, n) ==
    IF n = sEmpty THEN RankResult(0, ZeroNameCount, "name is required")
    ELSE IF Len(agg) = 0 THEN RankResult(0, ZeroNameCount, "no matching records")
    ELSE LET target == ToUpper(n)
         IN  IF target \notin DOMAIN rk
             THEN RankResult(0, ZeroNameCount, "not found")
             ELSE RankResult(rk[target], agg[rk[target]], "nil")

RankFromAggregate(agg, rk, n) ==
    IF TrimSpace(n) = sEmpty THEN RankResult(0, ZeroNameCount, "name is required")
    ELSE IF Len(agg) = 0 THEN RankResult(0, ZeroNameCount, "no matching records")
    ELSE LET target == ToUpper(n)
         IN  IF target \notin DOMAIN rk
             THEN RankResult(0, ZeroNameCount, "not found")
             ELSE RankResult(rk[target], agg[rk[target]], "nil")

(***************************************************************************)
(* NameSampler: NewNameSampler, Pick                                       *)
(*                                                                         *)
(* scaled[i] and prob[i] are float64 in the code; here the exact value     *)
(* x is carried as the integer x * total, so "x < 1.0" reads "x < total"   *)
(* and "x - 1" reads "x - total".  Slices are indexed from 1.              *)
(***************************************************************************)
NameSampler(e, p, a, t) == [isNil |-> FALSE, entries |-> e, prob |-> p, alias |-> a, total |-> t]

NilSampler == [isNil |-> TRUE, entries |-> <<>>, prob |-> <<>>, alias |-> <<>>, total |-> 0]

Returned(s, err) == [sampler |-> s, err |-> err]

NotReturned == Returned(NilSampler, "none")

PickResult(e, err) == [entry |-> e, err |-> err]

NoPick == PickResult(ZeroNameCount, "none")

\* TotalLoop without the check for a negative count.
RECURSIVE TotalLoopNoNegativeCheck(_, _, _)
TotalLoopNoNegativeCheck(agg, i, t) ==
    IF i > Len(agg) THEN t
    ELSE TotalLoopNoNegativeCheck(agg, i + 1, t + agg[i].Count)

\* for _, entry := range aggregated { if entry.Count < 0 { return error }; total += entry.Count }
\* from entry i on: the total, or -1 once a negative count is met.
RECURSIVE TotalLoop(_, _, _)
TotalLoop(agg, i, t) ==
    IF i > Len(agg) THEN t
    ELSE IF agg[i].Count < 0 THEN -1
    ELSE TotalLoop(agg, i + 1, t + agg[i].Count)

\* scaled[i] without the factor n.
ScaledOfWithoutN(agg) == [i \in 1..Len(agg) |-> agg[i].Count]

\* scaled[i] = float64(entry.Count) * float64(n) / float64(total), times total.
ScaledOf(agg) == [i \in 1..Len(agg) |-> agg[i].Count * Len(agg)]

\* The worklists with an entry of scaled value exactly 1 put on both.
RECURSIVE PartitionBoundaryOnBoth(_, _, _, _)
PartitionBoundaryOnBoth(sc, t, i, wantSmall) ==
    IF i > Len(sc) THEN <<>>
    ELSE IF (sc[i] < t) = wantSmall \/ sc[i] = t
         THEN <<i>> \o PartitionBoundaryOnBoth(sc, t, i + 1, wantSmall)
         ELSE PartitionBoundaryOnBoth(sc, t, i + 1, wantSmall)

\* The first loop's worklists: indices in input order, appended one by one.
RECURSIVE Partition(_, _, _, _)
Partition(sc, t, i, wantSmall) ==
    IF i > Len(sc) THEN <<>>
    ELSE IF (sc[i] < t) = wantSmall
         THEN <<i>> \o Partition(sc, t, i + 1, wantSmall)
         ELSE Partition(sc, t, i + 1, wantSmall)

\* The residual without the unit handed to the small entry.
ResidualKeepingUnit(lg, sml, t) == lg + sml

\* The residual with the small entry's mass subtracted instead of added.
ResidualSignSlip(lg, sml, t) == lg - sml - t

\* scaled[largeIdx] = scaled[largeIdx] + scaled[smallIdx] - 1, times total.
Residual(lg, sml, t) == lg + sml - t

Pop(stack) == SubSeq(stack, 1, Len(stack) - 1)

Top(stack) == stack[Len(stack)]

\* The assignment counts after: for _, idx := range rest { prob[idx] = 1 }
Assigned(c, rest) ==
    [i \in 1..Len(c) |-> c[i] + Cardinality({k \in 1..Len(rest) : rest[k] = i})]

\* Drain that leaves the worklist's entries at their initial probability.
DrainNothing(p, t, rest) == p

\* for _, idx := range large { prob[idx] = 1 }; the same for small.
Drain(p, t, rest) ==
    [i \in 1..Len(p) |-> IF \E k \in 1..Len(rest) : rest[k] = i THEN t ELSE p[i]]

\* One value taken from the random source: fn(n) yielded val.  rng.Intn(n)
\* yields val in [0, n); rng.Float64() yields a real in [0, 1), carried as
\* the index val of the cell [val/total, (val+1)/total) it lies in.
Draw(fn, n, val) == [fn |-> fn, n |-> n, val |-> val]

PickRun(res, draws, after) == [res |-> res, draws |-> draws, after |-> after]

\* Pick that skips rng.Float64() when prob[idx] is 1.
PickTraceSkippingCertain(s, idx, cell) ==
    IF s.isNil \/ Len(s.entries) = 0
    THEN PickRun(PickResult(ZeroNameCount, "no matching records"), <<>>, s)
    ELSE IF Len(s.prob) = 0 \/ Len(s.alias) = 0
    THEN PickRun(PickResult(s.entries[idx], "nil"), <<Draw("Intn", Len(s.entries), idx - 1)>>, s)
    ELSE IF s.prob[idx] = s.total
    THEN PickRun(PickResult(s.entries[idx], "nil"), <<Draw("Intn", Len(s.entries), idx - 1)>>, s)
    ELSE IF cell < s.prob[idx]
    THEN PickRun(PickResult(s.entries[idx], "nil"),
                 <<Draw("Intn", Len(s.entries), idx - 1), Draw("Float64", 1, cell)>>, s)
    ELSE PickRun(PickResult(s.entries[s.alias[idx]], "nil"),
                 <<Draw("Intn", Len(s.entries), idx - 1), Draw("Float64", 1, cell)>>, s)

\* Pick that takes the mass of the entry it returns out of the table.
PickTraceWithoutReplacement(s, idx, cell) ==
    IF s.isNil \/ Len(s.entries) = 0
    THEN PickRun(PickResult(ZeroNameCount, "no matching records"), <<>>, s)
    ELSE IF Len(s.prob) = 0 \/ Len(s.alias) = 0
    THEN PickRun(PickResult(s.entries[idx], "nil"), <<Draw("Intn", Len(s.entries), idx - 1)>>, s)
    ELSE IF cell < s.prob[idx]
    THEN PickRun(PickResult(s.entries[idx], "nil"),
                 <<Draw("Intn", Len(s.entries), idx - 1), Draw("Float64", 1, cell)>>,
                 [s EXCEPT !.prob[idx] = 0])
    ELSE PickRun(PickResult(s.entries[s.alias[idx]], "nil"),
                 <<Draw("Intn", Len(s.entries), idx - 1), Draw("Float64", 1, cell)>>, s)

\* Pick with the two values the random source yields: idx = Intn(len(entries)) + 1
\* and u = Float64() lying in the cell [cell/total, (cell+1)/total).  It gives
\* the result, the draws made on the way to it, and the sampler after the
\* call (Pick assigns to no field of s).
PickTrace(s, idx, cell) ==
    IF s.isNil \/ Len(s.entries) = 0
    THEN PickRun(PickResult(ZeroNameCount, "no matching records"), <<>>, s)
    ELSE IF Len(s.prob) = 0 \/ Len(s.alias) = 0
    THEN PickRun(PickResult(s.entries[idx], "nil"), <<Draw("Intn", Len(s.entries), idx - 1)>>, s)
    ELSE IF cell < s.prob[idx]
    THEN PickRun(PickResult(s.entries[idx], "nil"),
                 <<Draw("Intn", Len(s.entries), idx - 1), Draw("Float64", 1, cell)>>, s)
    ELSE PickRun(PickResult(s.entries[s.alias[idx]], "nil"),
                 <<Draw("Intn", Len(s.entries), idx - 1), Draw("Float64", 1, cell)>>, s)

Pick(s, idx, cell) == PickTrace(s, idx, cell).res

(***************************************************************************)
(* RandomNameFromAggregate, RandomNameFromAggregateWithTotal               *)
(***************************************************************************)
\* ScanLoop comparing pick <= running.
RECURSIVE ScanLoopInclusive(_, _, _, _)
ScanLoopInclusive(agg, i, running, pick) ==
    IF i > Len(agg) THEN agg[Len(agg)]
    ELSE IF pick <= running + agg[i].Count THEN agg[i]
    ELSE ScanLoopInclusive(agg, i + 1, running + agg[i].Count, pick)

\* for _, entry := range aggregated { running += entry.Count; if pick < running { return entry } }
RECURSIVE ScanLoop(_, _, _, _)
ScanLoop(agg, i, running, pick) ==
    IF i > Len(agg) THEN agg[Len(agg)]
    ELSE IF pick < running + agg[i].Count THEN agg[i]
    ELSE ScanLoop(agg, i + 1, running + agg[i].Count, pick)

\* pick is the value rng.Intn(total) yields; it is drawn only when total > 0.
RandomNameFromAggregateWithTotal(agg, t, pick) ==
    IF Len(agg) = 0 THEN PickResult(ZeroNameCount, "no matching records")
    ELSE IF t <= 0 THEN PickResult(ZeroNameCount, "no probability mass available")
    ELSE PickResult(ScanLoop(agg, 1, 0, pick), "nil")

RandomNameFromAggregate(agg, pick) ==
    IF Len(agg) = 0 THEN PickResult(ZeroNameCount, "no matching records")
    ELSE IF TotalLoop(agg, 1, 0) < 0 THEN PickResult(ZeroNameCount, "negative count")
    ELSE RandomNameFromAggregateWithTotal(agg, TotalLoop(agg, 1, 0), pick)

\* The draws RandomNameFromAggregateWithTotal makes: rng.Intn(total), once the checks pass.
WithTotalDraws(agg, t, pick) ==
    IF Len(agg) = 0 \/ t <= 0 THEN <<>> ELSE <<Draw("Intn", t, pick)>>

\* The draws RandomNameFromAggregate makes: those of the call it delegates to.
FromAggregateDraws(agg, pick) ==
    IF Len(agg) = 0 \/ TotalLoop(agg, 1, 0) < 0 THEN <<>>
    ELSE WithTotalDraws(agg, TotalLoop(agg, 1, 0), pick)

\* The values rng.Intn(t) can yield (one placeholder when it is never called).
Intn(t) == IF t > 0 THEN 0..(t - 1) ELSE {0}

\* The values of rng.Float64() told apart for entry idx: the cells on either
\* side of prob[idx], the last u below it and the first u not below it.
Float64Cells(s, idx) ==
    IF s.isNil \/ Len(s.prob) = 0 THEN {0}
    ELSE {s.prob[idx] - 1, s.prob[idx]} \cap (0..(s.total - 1))

(***************************************************************************)
(* Trend                                                                   *)
(***************************************************************************)
MapGet(m, k, zero) == IF k \in DOMAIN m THEN m[k] ELSE zero

TrendPoint(y, r, c, p) == [Year |-> y, Rank |-> r, Count |-> c, Present |-> p]

TrendSeries(n, pts) == [Name |-> n, Points |-> pts]

TrendResult(ys, ss, ts, err) == [years |-> ys, series |-> ss, totals |-> ts, err |-> err]

\* RequestedLoop keeping the blank names of the request.
RECURSIVE RequestedLoopKeepingBlank(_, _, _, _)
RequestedLoopKeepingBlank(raws, i, seen, requested) ==
    IF i > Len(raws) THEN requested
    ELSE LET trimmed == TrimSpace(raws[i])
             key == ToUpper(trimmed)
         IN  IF key \in seen
             THEN RequestedLoopKeepingBlank(raws, i + 1, seen, requested)
             ELSE RequestedLoopKeepingBlank(raws, i + 1, seen \cup {key},
                                Append(requested, [Key |-> key, Input |-> trimmed]))

\* RequestedLoop comparing the trimmed names as given, without upper-casing.
RECURSIVE RequestedLoopExactCase(_, _, _, _)
RequestedLoopExactCase(raws, i, seen, requested) ==
    IF i > Len(raws) THEN requested
    ELSE LET trimmed == TrimSpace(raws[i])
             key == ToUpper(trimmed)
         IN  IF trimmed = sEmpty \/ trimmed \in seen
             THEN RequestedLoopExactCase(raws, i + 1, seen, requested)
             ELSE RequestedLoopExactCase(raws, i + 1, seen \cup {trimmed},
                                Append(requested, [Key |-> key, Input |-> trimmed]))

\* for _, raw := range names { ... requested = append(requested, {Key, Input}) }
RECURSIVE RequestedLoop(_, _, _, _)
RequestedLoop(raws, i, seen, requested) ==
    IF i > Len(raws) THEN requested
    ELSE LET trimmed == TrimSpace(raws[i])
             key == ToUpper(trimmed)
         IN  IF trimmed = sEmpty \/ key \in seen
             THEN RequestedLoop(raws, i + 1, seen, requested)
             ELSE RequestedLoop(raws, i + 1, seen \cup {key},
                                Append(requested, [Key |-> key, Input |-> trimmed]))

\* YearlyLoop adding to totals only the count of the first record of a name.
RECURSIVE YearlyLoopTotalsOncePerName(_, _, _, _, _)
YearlyLoopTotalsOncePerName(recs, i, g, yearly, totals) ==
    IF i > Len(recs) THEN [yearly |-> yearly, totals |-> totals]
    ELSE LET r == recs[i]
             yearMap == MapGet(yearly, r.Year, EmptyMap)
             key == ToUpper(r.Name)
             agg == MapGet(yearMap, key, NameCount(r.Name, 0))
         IN  IF g # sEmpty /\ ToUpper(r.Gender) # g
             THEN YearlyLoopTotalsOncePerName(recs, i + 1, g, yearly, totals)
             ELSE YearlyLoopTotalsOncePerName(recs, i + 1, g,
                     MapPut(yearly, r.Year,
                            MapPut(yearMap, key, NameCount(agg.Name, agg.Count + r.Count))),
                     IF key \in DOMAIN yearMap THEN totals
                     ELSE MapPut(totals, r.Year, MapGet(totals, r.Year, 0) + r.Count))

\* for _, r := range records { ... agg.Count += r.Count; totals[r.Year] += r.Count }
RECURSIVE YearlyLoop(_, _, _, _, _)
YearlyLoop(recs, i, g, yearly, totals) ==
    IF i > Len(recs) THEN [yearly |-> yearly, totals |-> totals]
    ELSE LET r == recs[i]
             yearMap == MapGet(yearly, r.Year, EmptyMap)
             key == ToUpper(r.Name)
             agg == MapGet(yearMap, key, NameCount(r.Name, 0))
         IN  IF g # sEmpty /\ ToUpper(r.Gender) # g
             THEN YearlyLoop(recs, i + 1, g, yearly, totals)
             ELSE YearlyLoop(recs, i + 1, g,
                     MapPut(yearly, r.Year,
                            MapPut(yearMap, key, NameCount(agg.Name, agg.Count + r.Count))),
                     MapPut(totals, r.Year, MapGet(totals, r.Year, 0) + r.Count))

\* sort.Ints on at most 12 elements: insertion sort with <.
RECURSIVE IntsInner(_, _)
IntsInner(s, j) ==
    IF j > 1 /\ s[j] < s[j - 1] THEN IntsInner(Swap(s, j, j - 1), j - 1) ELSE s

RECURSIVE IntsOuter(_, _)
IntsOuter(s, i) ==
    IF i > Len(s) THEN s ELSE IntsOuter(IntsInner(s, i), i + 1)

\* The years left in the order the map was ranged in.
SortIntsSkipped(s) == s

SortInts(s) == IntsOuter(s, 2)

\* less ranking equal counts by descending name.
entriesLessNameDesc(a, b) ==
    IF a.Count = b.Count THEN StrLess(b.Name, a.Name) ELSE a.Count > b.Count

\* The less function of Trend's sort.Slice over a year's entries.
entriesLess(a, b) ==
    IF a.Count = b.Count THEN StrLess(a.Name, b.Name) ELSE a.Count > b.Count

RECURSIVE EntriesInner(_, _)
EntriesInner(s, j) ==
    IF j > 1 /\ entriesLess(s[j], s[j - 1])
    THEN EntriesInner(Swap(s, j, j - 1), j - 1)
    ELSE s

RECURSIVE EntriesOuter(_, _)
EntriesOuter(s, i) ==
    IF i > Len(s) THEN s ELSE EntriesOuter(EntriesInner(s, i), i + 1)

SortEntries(s) == EntriesOuter(s, 2)

\* Body of "for _, year := range years": the rank lookup of one year, its
\* entries appended in the order "range yearMap" visits them.
YearRanks(yearMap, order) ==
    LET entries == [i \in 1..Len(order) |->
                        NameCount(yearMap[order[i]].Name, yearMap[order[i]].Count)]
    IN  RanksLoop(SortEntries(entries), 1, EmptyMap)

\* for key, agg := range yearMap { if _, ok := displayNames[key]; !ok { ... } }
RECURSIVE DisplayInner(_, _, _, _)
DisplayInner(yearMap, order, i, dn) ==
    IF i > Len(order) THEN dn
    ELSE DisplayInner(yearMap, order, i + 1,
                      IF order[i] \in DOMAIN dn THEN dn
                      ELSE MapPut(dn, order[i], yearMap[order[i]].Name))

\* for _, yearMap := range yearly { ... }
RECURSIVE DisplayLoop(_, _, _, _, _)
DisplayLoop(yearly, yorder, korder, i, dn) ==
    IF i > Len(yorder) THEN dn
    ELSE DisplayLoop(yearly, yorder, korder, i + 1,
                     DisplayInner(yearly[yorder[i]], korder[yorder[i]], 1, dn))

\* Body of "for _, req := range requested".
\* SeriesOf leaving out the years in which the name is absent.
SeriesOfSkippingAbsent(req, years, yearly, yearRanks, displayNames) ==
    LET found == MapGet(displayNames, req.Key, sEmpty)
        display == IF found = sEmpty THEN req.Input ELSE found
        present(y) == req.Key \in DOMAIN yearly[y]
        kept == SelectSeq(years, present)
    IN  TrendSeries(display,
            [k \in 1..Len(kept) |->
                TrendPoint(kept[k], MapGet(yearRanks[kept[k]], req.Key, 0),
                           yearly[kept[k]][req.Key].Count, TRUE)])

\* for _, req := range requested { ... for _, year := range years { ... } }
SeriesOf(req, years, yearly, yearRanks, displayNames) ==
    LET found == MapGet(displayNames, req.Key, sEmpty)
        display == IF found = sEmpty THEN req.Input ELSE found
        point(k) ==
            LET stats == yearly[years[k]]
                rankLookup == yearRanks[years[k]]
            IN  IF req.Key \in DOMAIN stats
                THEN TrendPoint(years[k], MapGet(rankLookup, req.Key, 0),
                                stats[req.Key].Count, TRUE)
                ELSE TrendPoint(years[k], 0, 0, FALSE)
    IN  TrendSeries(display, [k \in 1..Len(years) |-> point(k)])

\* The orders in which the four "range" loops over maps visit their keys:
\* years (building the years slice), entries[y] (building a year's entries),
\* dyears and dkeys[y] (building displayNames).
KeyOrders(yearly) ==
    {f \in [DOMAIN yearly -> UNION {RangeOrders(DOMAIN yearly[y]) : y \in DOMAIN yearly}] :
        \A y \in DOMAIN yearly : f[y] \in RangeOrders(DOMAIN yearly[y])}

TrendOrders(yearly) ==
    [years : RangeOrders(DOMAIN yearly), entries : KeyOrders(yearly),
     dyears : RangeOrders(DOMAIN yearly), dkeys : KeyOrders(yearly)]

Yearly(recs, g) == YearlyLoop(recs, 1, ToUpper(TrimSpace(g)), EmptyMap, EmptyMap).yearly

\* Trend when the maps are visited in the orders ord.
Trend(recs, g, raws, ord) ==
    LET requested == RequestedLoop(raws, 1, {}, <<>>)
        grouped == YearlyLoop(recs, 1, ToUpper(TrimSpace(g)), EmptyMap, EmptyMap)
        yearly == grouped.yearly
        years == SortInts(ord.years)
        yearRanks == [y \in DOMAIN yearly |-> YearRanks(yearly[y], ord.entries[y])]
        displayNames == DisplayLoop(yearly, ord.dyears, ord.dkeys, 1, EmptyMap)
    IN  IF Len(requested) = 0
        THEN TrendResult(<<>>, <<>>, EmptyMap, "at least one name is required")
        ELSE IF DOMAIN yearly = {}
        THEN TrendResult(<<>>, <<>>, EmptyMap, "no matching records")
        ELSE TrendResult(years,
                         [k \in 1..Len(requested) |->
                             SeriesOf(requested[k], years, yearly, yearRanks, displayNames)],
                         grouped.totals, "nil")

(***************************************************************************)
(* TopNames, AggregateFromFS                                               *)
(***************************************************************************)
\* TopNames cutting the list when limit is 0 as well.
TopNamesZeroCuts(recs, y, g, lim, order) ==
    LET agg == AggregateNames(recs, y, g, order).aggregated
    IN  IF lim >= 0 /\ Len(agg) > lim THEN SubSeq(agg, 1, lim) ELSE agg

\* order is the order in which AggregateNames ranges over its map.
TopNames(recs, y, g, lim, order) ==
    LET agg == AggregateNames(recs, y, g, order).aggregated
    IN  IF lim > 0 /\ Len(agg) > lim THEN SubSeq(agg, 1, lim) ELSE agg

FSResult(agg, t, err) == [aggregated |-> agg, total |-> t, err |-> err]

\* The callback walkRecords runs on each record of the files, from record i
\* on, g already normalised: counts, display and total.
RECURSIVE FSLoop(_, _, _, _, _, _, _)
FSLoop(recs, i, y, g, counts, display, t) ==
    IF i > Len(recs) THEN [counts |-> counts, display |-> display, total |-> t]
    ELSE LET rec == recs[i]
             key == ToUpper(rec.Name)
         IN  IF (y # 0 /\ rec.Year # y)
                \/ (g # sEmpty /\ ToUpper(rec.Gender) # g)
                \/ rec.Count <= 0
             THEN FSLoop(recs, i + 1, y, g, counts, display, t)
             ELSE FSLoop(recs, i + 1, y, g,
                         MapPut(counts, key, MapGet(counts, key, 0) + rec.Count),
                         IF key \in DOMAIN display THEN display
                         ELSE MapPut(display, key, rec.Name),
                         t + rec.Count)

FSKeys(recs, y, g) ==
    DOMAIN FSLoop(recs, 1, y, ToUpper(TrimSpace(g)), EmptyMap, EmptyMap, 0).counts

\* AggregateFromFS over the records recs its files hold, in file order;
\* processed tells whether walkRecords read any file, and order is the order
\* in which the function ranges over counts.  Its sort.Slice has the less
\* function of AggregateNames.
AggregateFromFS(processed, recs, y, g, order) ==
    LET walked == FSLoop(recs, 1, y, ToUpper(TrimSpace(g)), EmptyMap, EmptyMap, 0)
        appended == [i \in 1..Len(order) |->
                        NameCount(walked.display[order[i]], walked.counts[order[i]])]
    IN  IF ~processed THEN FSResult(<<>>, 0, "no records found in dataset")
        ELSE IF walked.total = 0 THEN FSResult(<<>>, 0, "no matching records")
        ELSE FSResult(SortSlice(appended), walked.total, "nil")

(***************************************************************************)
(* The top command: yearFilter, filterRecordsByYear, runTop                *)
(***************************************************************************)
\* fmt.Sprintf("%d", n): the decimal digits of n, with "-" before a negative n.
RECURSIVE Digits(_)
Digits(n) == IF n < 10 THEN <<48 + n>> ELSE Digits(n \div 10) \o <<48 + (n % 10)>>

Itoa(n) == IF n < 0 THEN <<45>> \o Digits(0 - n) ELSE Digits(n)

\* yearFilter{all, years}: years is the key set of the map.
YearFilter(all, years) == [all |-> all, years |-> years]

Contains(f, y) == f.all \/ y \in f.years

formatYearSegment(start, end) ==
    IF start = end THEN Itoa(start) ELSE Itoa(start) \o <<45>> \o Itoa(end)

\* The inner loop of String: the last index of the run of consecutive years from j.
RECURSIVE RunEnd(_, _)
RunEnd(years, j) ==
    IF j < Len(years) /\ years[j + 1] = years[j] + 1 THEN RunEnd(years, j + 1) ELSE j

\* The outer loop of String joined with ", ".
RECURSIVE Segments(_, _)
Segments(years, i) ==
    IF i > Len(years) THEN <<>>
    ELSE LET j == RunEnd(years, i)
             seg == formatYearSegment(years[i], years[j])
         IN  IF j = Len(years) THEN seg ELSE seg \o <<44, 32>> \o Segments(years, j + 1)

\* yearFilter.String: the years are collected in range order and sorted.
YearFilterString(f) ==
    IF f.all THEN sEmpty
    ELSE Segments(SortInts(CHOOSE o \in RangeOrders(f.years) : TRUE), 1)

RECURSIVE filterRecordsByYear(_, _)
filterRecordsByYear(recs, f) ==
    IF f.all THEN recs
    ELSE IF recs = <<>> THEN <<>>
    ELSE IF Contains(f, Head(recs).Year)
         THEN <<Head(recs)>> \o filterRecordsByYear(Tail(recs), f)
         ELSE filterRecordsByYear(Tail(recs), f)

\* parseOutputFormat on a flag already trimmed and in lower case.
parseOutputFormat(raw) ==
    IF raw \in {"table", "json", "csv"} THEN [format |-> raw, err |-> "nil"]
    ELSE [format |-> "", err |-> "unsupported format"]

\* A line of the report: the format string and the values printed into it.
Line(text, args) == [text |-> text, args |-> args]

\* What runTop ends with: the report it hands to renderReport (rendered) and
\* the error it returns.  No report is rendered when it returns early.
TopResult(rendered, lines, metadata, rows, err) ==
    [rendered |-> rendered, Lines |-> lines, Metadata |-> metadata, Rows |-> rows, err |-> err]

TopFailed(err) == TopResult(FALSE, <<>>, EmptyMap, <<>>, err)

\* metadata["state"], metadata["year"], metadata["gender"] for the national dataset.
TopMetadata(f, g) ==
    LET withState == MapPut(EmptyMap, "state", <<78, 65, 84, 73, 79, 78, 65, 76>>)
        withYear == IF YearFilterString(f) # sEmpty
                    THEN MapPut(withState, "year", YearFilterString(f)) ELSE withState
    IN  IF TrimSpace(g) # sEmpty
        THEN MapPut(withYear, "gender", ToUpper(TrimSpace(g))) ELSE withYear

\* The title line and the rows of the first topN entries.
TopTitle(shown, f, g) ==
    Line("Top %d names in %s for %s (%s):",
         <<Itoa(shown), YearFilterString(f), IF TrimSpace(g) # sEmpty THEN ToUpper(g) ELSE sEmpty>>)

TopRows(agg, k) ==
    [i \in 1..(IF k > 0 /\ Len(agg) > k THEN k ELSE Len(agg)) |->
        <<Itoa(i), agg[i].Name, Itoa(agg[i].Count)>>]

\* runTop without a -state flag, from the parsed -year flag to the loading of
\* the records recs the dataset holds: the error returned, "nil" to go on.
runTopChecks(recs, f, k, n) ==
    IF k < 1 THEN "-top must be 1 or greater"
    ELSE IF TrimSpace(n) # sEmpty /\ f.all THEN "-year must be set when using -name"
    ELSE IF Len(recs) = 0 THEN "no records found in dataset"
    ELSE "nil"

\* The empty result returned as an error instead of a report.
NoMatchReportAsError(metadata) == TopFailed("no matching records")

\* The report of an empty aggregate list.
NoMatchReport(metadata) ==
    TopResult(TRUE, <<Line("No matching names found.", <<>>)>>, metadata, <<>>, "nil")

\* runTop from parseOutputFormat on, with what AggregateNames returned.
runTopReport(agg, rk, f, g, k, n, fmtFlag) ==
    LET metadata == TopMetadata(f, g)
        shown == IF k > 0 /\ Len(agg) > k THEN k ELSE Len(agg)
    IN  IF parseOutputFormat(fmtFlag).err # "nil"
        THEN TopFailed(parseOutputFormat(fmtFlag).err)
        ELSE IF Len(agg) = 0
        THEN NoMatchReport(metadata)
        ELSE IF TrimSpace(n) # sEmpty
        THEN LET rr == RankFromAggregate(agg, rk, TrimSpace(n))
             IN  IF rr.err # "nil" THEN TopFailed(rr.err)
                 ELSE TopResult(TRUE,
                          <<Line("%s ranks #%d in %s for %s (%s) with %d occurrences",
                                 <<rr.entry.Name, Itoa(rr.rank), YearFilterString(f),
                                   IF TrimSpace(g) # sEmpty THEN ToUpper(g) ELSE sEmpty,
                                   Itoa(rr.entry.Count)>>),
                            Line("", <<>>),
                            TopTitle(shown, f, g)>>,
                          MapPut(MapPut(MapPut(metadata,
                              "queried_name", rr.entry.Name),
                              "queried_rank", Itoa(rr.rank)),
                              "queried_count", Itoa(rr.entry.Count)),
                          TopRows(agg, k), "nil")
        ELSE TopResult(TRUE, <<TopTitle(shown, f, g)>>, metadata, TopRows(agg, k), "nil")

(***************************************************************************)
(* Inputs                                                                  *)
(***************************************************************************)
RecordNames == {sa, sA, sB, sSpace}
RecordCounts == {0, 1}
\* (Gender, Year) of the sample records: "m" needs upper-casing to match "M".
RecordScopes == {<<sF, 2020>>, <<sm, 2020>>, <<sF, 2018>>}

RecordPool ==
    {Record("CA", gy[1], gy[2], n, c) : gy \in RecordScopes, n \in RecordNames, c \in RecordCounts}

RECURSIVE SeqsUpTo(_, _)
SeqsUpTo(S, n) ==
    IF n = 0 THEN {<<>>}
    ELSE LET shorter == SeqsUpTo(S, n - 1)
         IN  shorter \cup {Append(s, x) : s \in {t \in shorter : Len(t) = n - 1}, x \in S}

YearFilters == {0, 2020}
GenderFilters == {sEmpty, sSpf, sM}
QueryNames == {sa, sSpace, sEmpty}

NoRank == RankResult(0, ZeroNameCount, "none")

\* Aggregate lists handed to the samplers: entry i is named by its position.
EntryNames == <<sA, sB, sC, <<68>>, <<69>>>>
EntryCounts == (-1)..MaxWeight
CountLists == SeqsUpTo(EntryCounts, MaxEntries)
EntryLists == {[i \in 1..Len(cs) |-> NameCount(EntryNames[i], cs[i])] : cs \in CountLists}

\* Totals handed to RandomNameFromAggregateWithTotal: what its callers compute
\* (the sum of the counts), and the totals the function rejects.
RECURSIVE CountSum(_, _)
CountSum(agg, i) == IF i > Len(agg) THEN 0 ELSE agg[i].Count + CountSum(agg, i + 1)
TotalArgs(agg) == {CountSum(agg, 1), 0, -1}

\* Inputs of Trend.
sSpASp == <<32, 65, 32>>
TrendRecordPool == {r \in RecordPool : r.Name # sSpace}
TrendGenders == {sEmpty, sSpf, sM}
RequestLists == {<<>>, <<sSpace>>, <<sa>>, <<sB, sSpace, sa>>, <<sSpASp, sa, sC>>, <<sa, sB, sA>>}

\* Flags of the top command: parsed -year filters, -gender, and the -top,
\* -name, -format combinations (valid ones, and one for each rejected flag).
YearFilterArgs == {YearFilter(TRUE, {}), YearFilter(FALSE, {2020}), YearFilter(FALSE, {2018, 2020})}
TopGenders == {sEmpty, sSpf}
TopFlags ==
    {[top |-> k, name |-> n, format |-> "table"] : k \in {1, 2}, n \in {sEmpty, sa}}
        \cup {[top |-> 0, name |-> sEmpty, format |-> "table"],
              [top |-> 1, name |-> sEmpty, format |-> "yaml"],
              [top |-> 2, name |-> sC, format |-> "json"]}

\* The datasets of the top command: the sample records named "a" or "B".
TopRecordPool == {r \in RecordPool : r.Name \in {sa, sB}}

NoTop == TopFailed("none")

\* limit arguments of TopNames: none, and limits below and above the list's length.
Limits == {-1, 0, 1, 3}

NoFS == FSResult(<<>>, 0, "none")

\* "a" and "A" share a key and differ in display name.
DatasetPool == {r \in RecordPool : r.Name \in {sa, sA, sB}}

DataIdle ==
    /\ limit = 0
    /\ topNames = <<>>
    /\ fsRes = NoFS

TopIdle ==
    /\ yearFilter = YearFilter(TRUE, {})
    /\ topN = 10
    /\ formatFlag = "table"
    /\ topRes = NoTop

NoTrend == [years |-> <<>>, series |-> <<>>, totals |-> EmptyMap, err |-> "none"]

TrendIdle ==
    /\ names = <<>>
    /\ trendRes = NoTrend

SamplerIdle ==
    /\ pc = "idle"
    /\ total = 0
    /\ scaled = <<>>
    /\ small = <<>>
    /\ large = <<>>
    /\ prob = <<>>
    /\ alias = <<>>
    /\ sampler = NotReturned
    /\ pickRes = NoPick
    /\ drawn = <<>>
    /\ count = 1
    /\ picks = 0
    /\ iters = 0
    /\ probSet = <<>>

(***************************************************************************)
(* Specification: aggregation and ranking                                  *)
(***************************************************************************)
Init ==
    /\ op = "init"
    /\ records \in SeqsUpTo(RecordPool, MaxRecs)
    /\ year = 0
    /\ gender = sEmpty
    /\ aggregated = <<>>
    /\ ranks = EmptyMap
    /\ name = sEmpty
    /\ rankRes = NoRank
    /\ SamplerIdle
    /\ TopIdle
    /\ DataIdle
    /\ TrendIdle

CallAggregateNames ==
    /\ op = "init"
    /\ \E y \in YearFilters, g \in GenderFilters :
        \E order \in RangeOrders(TotalsKeys(records, y, g)) :
            LET out == AggregateNames(records, y, g, order)
            IN  /\ year' = y
                /\ gender' = g
                /\ aggregated' = out.aggregated
                /\ ranks' = out.ranks
    /\ op' = "AggregateNames"
    /\ UNCHANGED <<records, name, rankRes, samplerVars, trendVars, topVars, dataVars>>

CallRankFromAggregate ==
    /\ op = "AggregateNames"
    /\ \E n \in QueryNames :
        /\ name' = n
        /\ rankRes' = RankFromAggregate(aggregated, ranks, n)
    /\ op' = "RankFromAggregate"
    /\ UNCHANGED <<records, year, gender, aggregated, ranks, samplerVars, trendVars, topVars, dataVars>>

\* Rank = AggregateNames followed by RankFromAggregate on its two results.
CallRank ==
    /\ op = "init"
    /\ \E y \in YearFilters, g \in GenderFilters :
        \E order \in RangeOrders(TotalsKeys(records, y, g)) :
            LET out == AggregateNames(records, y, g, order)
            IN  /\ year' = y
                /\ gender' = g
                /\ aggregated' = out.aggregated
                /\ ranks' = out.ranks
                /\ \E n \in QueryNames :
                    /\ name' = n
                    /\ rankRes' = RankFromAggregate(out.aggregated, out.ranks, n)
    /\ op' = "RankFromAggregate"
    /\ UNCHANGED <<records, samplerVars, trendVars, topVars, dataVars>>

Next == CallAggregateNames \/ CallRankFromAggregate \/ CallRank

Spec == Init /\ [][Next]_vars

(***************************************************************************)
(* Specification: the top command over one dataset                         *)
(***************************************************************************)
InitTop ==
    /\ op = "init"
    /\ records \in SeqsUpTo(TopRecordPool, MaxRecs)
    /\ year = 0
    /\ gender = sEmpty
    /\ aggregated = <<>>
    /\ ranks = EmptyMap
    /\ name = sEmpty
    /\ rankRes = NoRank
    /\ SamplerIdle
    /\ TopIdle
    /\ DataIdle
    /\ TrendIdle

CallRunTop ==
    /\ op = "init"
    /\ \E f \in YearFilterArgs, g \in TopGenders, fl \in TopFlags :
        /\ yearFilter' = f
        /\ gender' = g
        /\ topN' = fl.top
        /\ name' = fl.name
        /\ formatFlag' = fl.format
        /\ IF runTopChecks(records, f, fl.top, fl.name) # "nil"
           THEN /\ topRes' = TopFailed(runTopChecks(records, f, fl.top, fl.name))
                /\ UNCHANGED <<aggregated, ranks>>
           ELSE \E order \in RangeOrders(TotalsKeys(filterRecordsByYear(records, f), 0, g)) :
                    LET out == AggregateNames(filterRecordsByYear(records, f), 0, g, order)
                    IN  /\ aggregated' = out.aggregated
                        /\ ranks' = out.ranks
                        /\ topRes' = runTopReport(out.aggregated, out.ranks, f, g,
                                                  fl.top, fl.name, fl.format)
    /\ op' = "runTop"
    /\ UNCHANGED <<records, year, rankRes, samplerVars, trendVars, dataVars>>

NextTop == CallRunTop

SpecTop == InitTop /\ [][NextTop]_vars

(***************************************************************************)
(* Specification: TopNames and AggregateFromFS over one dataset            *)
(***************************************************************************)
InitDataset ==
    /\ op = "init"
    /\ records \in SeqsUpTo(DatasetPool, MaxRecs)
    /\ year = 0
    /\ gender = sEmpty
    /\ aggregated = <<>>
    /\ ranks = EmptyMap
    /\ name = sEmpty
    /\ rankRes = NoRank
    /\ SamplerIdle
    /\ TopIdle
    /\ DataIdle
    /\ TrendIdle

CallTopNames ==
    /\ op = "init"
    /\ \E y \in YearFilters, g \in TopGenders, lim \in Limits :
        \E order \in RangeOrders(TotalsKeys(records, y, g)) :
            /\ year' = y
            /\ gender' = g
            /\ limit' = lim
            /\ topNames' = TopNames(records, y, g, lim, order)
    /\ op' = "TopNames"
    /\ UNCHANGED <<records, aggregated, ranks, name, rankRes, fsRes, samplerVars, trendVars, topVars>>

CallAggregateFromFS ==
    /\ op = "init"
    /\ \E y \in YearFilters, g \in GenderFilters,
          processed \in IF records = <<>> THEN BOOLEAN ELSE {TRUE} :
        \E order \in RangeOrders(FSKeys(records, y, g)) :
            /\ year' = y
            /\ gender' = g
            /\ fsRes' = AggregateFromFS(processed, records, y, g, order)
    /\ op' = "AggregateFromFS"
    /\ UNCHANGED <<records, aggregated, ranks, name, rankRes, limit, topNames, samplerVars, trendVars, topVars>>

NextDataset ==
    \/ CallTopNames
    \/ CallAggregateFromFS

SpecDataset == InitDataset /\ [][NextDataset]_vars

(***************************************************************************)
(* Specification: the two sampling paths over one aggregate list           *)
(***************************************************************************)
InitSampler ==
    /\ op = "init"
    /\ aggregated \in EntryLists
    /\ records = <<>>
    /\ year = 0
    /\ gender = sEmpty
    /\ ranks = EmptyMap
    /\ name = sEmpty
    /\ rankRes = NoRank
    /\ SamplerIdle
    /\ TopIdle
    /\ DataIdle
    /\ TrendIdle
    /\ TrendIdle

\* NewNameSampler up to the pairing loop: the checks, total, scaled, small, large.
NewNameSamplerBegin ==
    /\ pc = "idle" /\ op = "init"
    /\ op' = "NewNameSampler"
    /\ LET t == TotalLoop(aggregated, 1, 0)
           n == Len(aggregated)
       IN  IF n = 0
           THEN /\ sampler' = Returned(NilSampler, "no matching records")
                /\ pc' = "returned"
                /\ UNCHANGED <<total, scaled, small, large, prob, alias, iters, probSet>>
           ELSE IF t < 0
           THEN /\ sampler' = Returned(NilSampler, "negative count")
                /\ pc' = "returned"
                /\ UNCHANGED <<total, scaled, small, large, prob, alias, iters, probSet>>
           ELSE IF t = 0
           THEN /\ sampler' = Returned(NilSampler, "no probability mass available")
                /\ pc' = "returned"
                /\ total' = t
                /\ UNCHANGED <<scaled, small, large, prob, alias, iters, probSet>>
           ELSE /\ total' = t
                /\ prob' = [i \in 1..n |-> 0]
                /\ alias' = [i \in 1..n |-> i]
                /\ scaled' = ScaledOf(aggregated)
                /\ small' = Partition(ScaledOf(aggregated), t, 1, TRUE)
                /\ large' = Partition(ScaledOf(aggregated), t, 1, FALSE)
                /\ iters' = 0
                /\ probSet' = [i \in 1..n |-> 0]
                /\ pc' = "pairing"
                /\ UNCHANGED sampler
    /\ UNCHANGED <<aggregated, aggVars, pickRes, drawn, count, picks, trendVars, topVars, dataVars>>

\* One iteration of: for len(small) > 0 && len(large) > 0 { ... }
PairStep ==
    /\ pc = "pairing"
    /\ Len(small) > 0 /\ Len(large) > 0
    /\ LET smallIdx == Top(small)
           largeIdx == Top(large)
           rest == Residual(scaled[largeIdx], scaled[smallIdx], total)
       IN  /\ prob' = [prob EXCEPT ![smallIdx] = scaled[smallIdx]]
           /\ probSet' = [probSet EXCEPT ![smallIdx] = @ + 1]
           /\ alias' = [alias EXCEPT ![smallIdx] = largeIdx]
           /\ scaled' = [scaled EXCEPT ![largeIdx] = rest]
           /\ IF rest < total
              THEN small' = Append(Pop(small), largeIdx) /\ large' = Pop(large)
              ELSE small' = Pop(small) /\ large' = Append(Pop(large), largeIdx)
    /\ iters' = iters + 1
    /\ UNCHANGED <<op, aggregated, aggVars, pc, total, sampler, pickRes, drawn, count, picks, trendVars, topVars, dataVars>>

\* The loop has ended: drain both worklists and return the sampler.
NewNameSamplerReturn ==
    /\ pc = "pairing"
    /\ ~(Len(small) > 0 /\ Len(large) > 0)
    /\ prob' = Drain(Drain(prob, total, large), total, small)
    /\ probSet' = Assigned(Assigned(probSet, large), small)
    /\ sampler' = Returned(NameSampler(aggregated, prob', alias, total), "nil")
    /\ pc' = "returned"
    /\ UNCHANGED <<op, aggregated, aggVars, total, scaled, small, large, alias, pickRes, drawn, count, picks, iters, trendVars, topVars, dataVars>>

\* s.Pick(r) on what NewNameSampler returned (nil after an error); the generate
\* command calls it count times on the one sampler it built.
CallPick ==
    /\ pc = "returned"
    /\ picks < count
    /\ \E idx \in 1..(IF Len(sampler.sampler.entries) = 0 THEN 1 ELSE Len(sampler.sampler.entries)) :
          \E cell \in Float64Cells(sampler.sampler, idx) :
            /\ pickRes' = Pick(sampler.sampler, idx, cell)
            /\ drawn' = PickTrace(sampler.sampler, idx, cell).draws
            /\ sampler' = Returned(PickTrace(sampler.sampler, idx, cell).after, sampler.err)
    /\ picks' = picks + 1
    /\ op' = "Pick"
    /\ UNCHANGED <<aggregated, aggVars, pc, total, scaled, small, large, prob, alias, iters, probSet, count, trendVars, topVars, dataVars>>

CallRandomNameFromAggregate ==
    /\ pc = "idle" /\ op = "init"
    /\ \E pick \in Intn(TotalLoop(aggregated, 1, 0)) :
        /\ pickRes' = RandomNameFromAggregate(aggregated, pick)
        /\ drawn' = FromAggregateDraws(aggregated, pick)
    /\ op' = "RandomNameFromAggregate"
    /\ UNCHANGED <<aggregated, aggVars, pc, total, scaled, small, large, prob, alias, iters, probSet, sampler, count, picks, trendVars, topVars, dataVars>>

\* RandomNameFromAggregateWithTotal(aggregated, total, r) with the caller's total:
\* the sum of the counts, or a total that is zero or negative.
CallRandomNameFromAggregateWithTotal ==
    /\ pc = "idle" /\ op = "init"
    /\ \E t \in TotalArgs(aggregated) :
          \E pick \in Intn(t) :
            /\ total' = t
            /\ pickRes' = RandomNameFromAggregateWithTotal(aggregated, t, pick)
            /\ drawn' = WithTotalDraws(aggregated, t, pick)
    /\ op' = "RandomNameFromAggregateWithTotal"
    /\ UNCHANGED <<aggregated, aggVars, pc, scaled, small, large, prob, alias, iters, probSet, sampler, count, picks, trendVars, topVars, dataVars>>

NextSampler ==
    \/ NewNameSamplerBegin
    \/ PairStep
    \/ NewNameSamplerReturn
    \/ CallPick
    \/ CallRandomNameFromAggregate

SpecSampler == InitSampler /\ [][NextSampler]_vars

(***************************************************************************)
(* Specification: the single-shot scans over one aggregate list            *)
(***************************************************************************)
NextScan ==
    \/ CallRandomNameFromAggregate
    \/ CallRandomNameFromAggregateWithTotal

SpecScan == InitSampler /\ [][NextScan]_vars

(***************************************************************************)
(* Specification: the generate command's use of one sampler                *)
(*                                                                         *)
(* runGenerate builds the sampler once and calls Pick on it count times    *)
(* with one random source.                                                 *)
(***************************************************************************)
InitGenerate ==
    /\ op = "init"
    /\ aggregated \in EntryLists
    /\ records = <<>>
    /\ year = 0
    /\ gender = sEmpty
    /\ ranks = EmptyMap
    /\ name = sEmpty
    /\ rankRes = NoRank
    /\ pc = "idle"
    /\ total = 0
    /\ scaled = <<>>
    /\ small = <<>>
    /\ large = <<>>
    /\ prob = <<>>
    /\ alias = <<>>
    /\ sampler = NotReturned
    /\ pickRes = NoPick
    /\ drawn = <<>>
    /\ count \in 1..MaxCount
    /\ picks = 0
    /\ iters = 0
    /\ probSet = <<>>
    /\ TrendIdle
    /\ TopIdle
    /\ DataIdle

NextGenerate ==
    \/ NewNameSamplerBegin
    \/ PairStep
    \/ NewNameSamplerReturn
    \/ CallPick

SpecGenerate == InitGenerate /\ [][NextGenerate]_vars

(***************************************************************************)
(* Specification: Trend                                                    *)
(***************************************************************************)
InitTrend ==
    /\ op = "init"
    /\ records \in SeqsUpTo(TrendRecordPool, MaxRecs)
    /\ year = 0
    /\ gender = sEmpty
    /\ aggregated = <<>>
    /\ ranks = EmptyMap
    /\ name = sEmpty
    /\ rankRes = NoRank
    /\ SamplerIdle
    /\ TopIdle
    /\ DataIdle
    /\ TrendIdle

CallTrend ==
    /\ op = "init"
    /\ \E g \in TrendGenders, raws \in RequestLists :
        \E ord \in TrendOrders(Yearly(records, g)) :
            /\ gender' = g
            /\ names' = raws
            /\ trendRes' = Trend(records, g, raws, ord)
    /\ op' = "Trend"
    /\ UNCHANGED <<records, year, aggregated, ranks, name, rankRes, samplerVars, topVars, dataVars>>

NextTrend == CallTrend

SpecTrend == InitTrend /\ [][NextTrend]_vars

(***************************************************************************)
(* Properties of AggregateNames, Rank and RankFromAggregate                *)
(***************************************************************************)
Aggregated == op \in {"AggregateNames", "RankFromAggregate"}

RECURSIVE SumCounts(_)
SumCounts(s) == IF s = <<>> THEN 0 ELSE Head(s).Count + SumCounts(Tail(s))

\* The records the filters let through, as the contract words it.
PassesFilters(r) ==
    /\ year = 0 \/ r.Year = year
    /\ TrimSpace(gender) = sEmpty \/ ToUpper(r.Gender) = ToUpper(TrimSpace(gender))

Passing == SelectSeq(records, PassesFilters)

\* Ordinal order on strings, stated by the first position where they differ.
OrdLess(s, t) ==
    \E k \in 1..Len(t) :
        /\ \A j \in 1..(k - 1) : j <= Len(s) /\ s[j] = t[j]
        /\ k > Len(s) \/ (Len(s) >= k /\ s[k] < t[k])

\* C1: the counts of the aggregated list sum to the counts of exactly the
\* records that pass the year filter and the gender filter.
C1_Conservation ==
    Aggregated => SumCounts(aggregated) = SumCounts(Passing)

C1_Witness ==
    /\ op = "AggregateNames"
    /\ Len(records) = 2 /\ Len(Passing) = 1
    /\ gender = sM /\ year = 2020
    /\ Passing[1].Gender = sm /\ records[1].Year = 2020
    /\ Len(aggregated) = 1 /\ aggregated[1].Count = 1
    /\ SumCounts(records) = 2

\* C2: the aggregated list is strictly ordered by count descending, then by
\* name ascending in ordinal order; no two adjacent entries compare equal.
C2_StrictOrder ==
    Aggregated =>
        \A i \in 1..(Len(aggregated) - 1) :
            LET a == aggregated[i]
                b == aggregated[i + 1]
            IN  \/ a.Count > b.Count
                \/ a.Count = b.Count /\ OrdLess(a.Name, b.Name)

C2_Witness ==
    /\ op = "AggregateNames"
    /\ Len(aggregated) = 2
    /\ aggregated[1].Count = aggregated[2].Count
    /\ aggregated[1].Name = sB /\ aggregated[2].Name = sa
    /\ records[1].Name = sa

FirstPassingWith(key) ==
    Passing[CHOOSE j \in 1..Len(Passing) :
                /\ ToUpper(Passing[j].Name) = key
                /\ \A h \in 1..(j - 1) : ToUpper(Passing[h].Name) # key]

PassingKeys == {ToUpper(Passing[j].Name) : j \in 1..Len(Passing)}

\* C3: one entry per distinct upper-cased name among the passing records, and
\* the entry carries the casing of the first passing record of that name.
C3_OneEntryFirstCasing ==
    Aggregated =>
        /\ Len(aggregated) = Cardinality(PassingKeys)
        /\ \A key \in PassingKeys :
            \E i \in 1..Len(aggregated) :
                /\ ToUpper(aggregated[i].Name) = key
                /\ aggregated[i].Name = FirstPassingWith(key).Name
                /\ \A h \in 1..Len(aggregated) : ToUpper(aggregated[h].Name) = key => h = i

C3_Witness ==
    /\ op = "AggregateNames"
    /\ Len(Passing) = 2
    /\ Passing[1].Name = sa /\ Passing[2].Name = sA
    /\ Len(aggregated) = 1 /\ aggregated[1].Name = sa

\* C4: the rank map sends the upper-cased name of entry i to i (1-based), it
\* takes exactly the values 1..len, and RankFromAggregate answers (i, entry i)
\* without error for any casing of a non-blank name of the list.
C4_RankConsistency ==
    Aggregated =>
        /\ \A i \in 1..Len(aggregated) :
            TrimSpace(aggregated[i].Name) # sEmpty =>
                /\ ToUpper(aggregated[i].Name) \in DOMAIN ranks
                /\ ranks[ToUpper(aggregated[i].Name)] = i
                /\ (op = "RankFromAggregate" /\ ToUpper(name) = ToUpper(aggregated[i].Name))
                       => rankRes = RankResult(i, aggregated[i], "nil")
        /\ {ranks[k] : k \in DOMAIN ranks} = 1..Len(aggregated)
        /\ \A k1, k2 \in DOMAIN ranks : ranks[k1] = ranks[k2] => k1 = k2

C4_Witness ==
    /\ op = "RankFromAggregate"
    /\ name = sa
    /\ Len(aggregated) = 2
    /\ aggregated[2].Name = sA
    /\ rankRes = RankResult(2, aggregated[2], "nil")

\* The count the filters leave for the queried name.
QueriedCount ==
    SumCounts(SelectSeq(Passing, LAMBDA r : ToUpper(r.Name) = ToUpper(name)))

\* C5: Rank and RankFromAggregate fail (not found) for a name whose aggregated
\* count under the filters is 0, also when its only passing records have
\* Count 0.
C5_ZeroCountNotFound ==
    (op = "RankFromAggregate" /\ QueriedCount = 0) =>
        /\ rankRes.err # "nil"
        /\ rankRes.rank = 0

\* C7: whatever order the grouping map is iterated in, AggregateNames returns
\* the list and the rank map it returned.
C7_AggregateDeterministic ==
    op = "AggregateNames" =>
        \A order \in RangeOrders(TotalsKeys(records, year, gender)) :
            AggregateNames(records, year, gender, order)
                = [aggregated |-> aggregated, ranks |-> ranks]

C7_Witness ==
    /\ op = "AggregateNames"
    /\ Len(aggregated) = 2
    /\ aggregated[1].Count = aggregated[2].Count
    /\ aggregated[1].Name = sSpace /\ aggregated[2].Name = sA

\* C27: among entries of equal Count the names ascend under case-insensitive
\* comparison: for adjacent tied entries a before b, upper(a.Name) < upper(b.Name).
C27_TiesCaseInsensitive ==
    Aggregated =>
        \A i \in 1..(Len(aggregated) - 1) :
            aggregated[i].Count = aggregated[i + 1].Count =>
                OrdLess(ToUpper(aggregated[i].Name), ToUpper(aggregated[i + 1].Name))

\* A name that is empty or made of white space only.
Blank(n) == \A k \in 1..Len(n) : isSpace(n[k])

\* C16: RankFromAggregate fails with rank 0 and an empty entry when the name
\* is empty or only white space, and when the aggregate list is empty; the
\* blank name is reported first, whether or not the list is empty.
C16_RankFailures ==
    op = "RankFromAggregate" =>
        /\ Blank(name) => rankRes = RankResult(0, ZeroNameCount, "name is required")
        /\ Len(aggregated) = 0 =>
            /\ rankRes.rank = 0
            /\ rankRes.entry = ZeroNameCount
            /\ rankRes.err = (IF Blank(name) THEN "name is required" ELSE "no matching records")

C16_Witness ==
    /\ op = "RankFromAggregate"
    /\ name = sSpace
    /\ Len(aggregated) = 2
    /\ rankRes = RankResult(0, ZeroNameCount, "name is required")

\* The records of the dataset that pass the top command's -year and -gender flags.
TopPasses(r) == Contains(yearFilter, r.Year) /\ PassesFilters(r)

TopPassing == SelectSeq(records, TopPasses)

\* The top command got as far as calling AggregateNames: its flags were
\* accepted and the dataset holds records.
TopAggregated ==
    /\ op = "runTop"
    /\ topN >= 1
    /\ Blank(name) \/ ~yearFilter.all
    /\ Len(records) > 0

\* C17: AggregateNames has no failure: when no record passes the filters it
\* returns an empty list and an empty rank map, and the top command (given a
\* supported -format) then renders the report "No matching names found." with
\* no rows and returns a nil error; when some record passes, the list is not
\* empty.
C17_EmptyIsNotAnError ==
    TopAggregated =>
        /\ Len(TopPassing) = 0 =>
            /\ aggregated = <<>>
            /\ ranks = EmptyMap
            /\ formatFlag \in {"table", "json", "csv"} =>
                /\ topRes.rendered
                /\ topRes.Lines = <<Line("No matching names found.", <<>>)>>
                /\ topRes.Rows = <<>>
                /\ topRes.err = "nil"
        /\ Len(TopPassing) > 0 => Len(aggregated) > 0

C17_Witness ==
    /\ op = "runTop"
    /\ Len(records) = 2
    /\ \A i \in 1..2 : records[i].Year = 2018 /\ records[i].Count = 1
    /\ yearFilter = YearFilter(FALSE, {2020})
    /\ name = sa /\ topN = 2
    /\ aggregated = <<>>
    /\ topRes.rendered /\ topRes.Rows = <<>> /\ topRes.err = "nil"
    /\ topRes.Lines = <<Line("No matching names found.", <<>>)>>

(***************************************************************************)
(* Properties of the samplers                                              *)
(***************************************************************************)
RECURSIVE SumOver(_, _)
SumOver(f, S) ==
    IF S = {} THEN 0
    ELSE LET x == CHOOSE y \in S : TRUE IN f[x] + SumOver(f, S \ {x})

Weights == [i \in 1..Len(aggregated) |-> aggregated[i].Count]

WeightSum == SumOver(Weights, 1..Len(aggregated))

\* A list the samplers accept: not empty, no negative count, positive sum.
ValidList ==
    /\ Len(aggregated) > 0
    /\ \A i \in 1..Len(aggregated) : aggregated[i].Count >= 0
    /\ WeightSum > 0

Built == pc = "returned" /\ sampler.err = "nil"

\* n * total * (probability that a draw returns index i), from the table:
\* prob[i] + sum over j # i with alias[j] = i of (1 - prob[j]), times total.
TableMass(s, i) ==
    LET into == {j \in 1..Len(s.entries) : j # i /\ s.alias[j] = i}
    IN  s.prob[i] + SumOver([j \in 1..Len(s.entries) |-> s.total - s.prob[j]], into)

\* C8: in exact arithmetic the table gives index i the probability c_i / T:
\* (prob[i] + sum of (1 - prob[j]) over j # i aliased to i) / n = c_i / T.
C8_AliasTableFidelity ==
    Built =>
        \A i \in 1..Len(aggregated) :
            TableMass(sampler.sampler, i) = aggregated[i].Count * Len(aggregated)

C8_Witness ==
    /\ Built
    /\ Len(aggregated) = 3
    /\ Weights = <<0, 3, 1>>
    /\ sampler.sampler.alias = <<2, 2, 2>>
    /\ sampler.sampler.prob[3] < total /\ sampler.sampler.prob[3] > 0

\* The draws (p) of the single-shot path that return entry i.
ScanDraws(i) ==
    {p \in 0..(WeightSum - 1) : RandomNameFromAggregate(aggregated, p) = PickResult(aggregated[i], "nil")}

\* The draws (idx, cell of u) of the alias path that return entry i.
TableDraws(i) ==
    {d \in (1..Len(aggregated)) \X (0..(WeightSum - 1)) :
        Pick(sampler.sampler, d[1], d[2]) = PickResult(aggregated[i], "nil")}

\* C9: over a valid list both paths return entry i with probability c_i / T:
\* c_i of the T values of p select it in the scan, n * c_i of the n * T equally
\* likely (idx, u-cell) pairs select it in the table; no path returns an entry
\* of count 0.
C9_PathsAgree ==
    ValidList =>
        /\ \A i \in 1..Len(aggregated) : Cardinality(ScanDraws(i)) = aggregated[i].Count
        /\ Built =>
            \A i \in 1..Len(aggregated) :
                Cardinality(TableDraws(i)) = Len(aggregated) * aggregated[i].Count
        /\ (op \in {"Pick", "RandomNameFromAggregate"}) =>
            pickRes.err = "nil" /\ pickRes.entry.Count > 0

C9_Witness ==
    /\ op = "Pick"
    /\ Weights = <<2, 0, 3>>
    /\ pickRes = PickResult(aggregated[3], "nil")
    /\ Cardinality(TableDraws(1)) = 6
    /\ Cardinality(ScanDraws(1)) = 2

\* The lists the samplers must reject.
Rejected ==
    \/ Len(aggregated) = 0
    \/ \E i \in 1..Len(aggregated) : aggregated[i].Count < 0
    \/ WeightSum = 0

\* C10: NewNameSampler and RandomNameFromAggregate fail, returning no sampler
\* and no entry, exactly on an empty list, a negative count or a zero sum;
\* Pick on a sampler without entries fails too.
C10_SamplerErrors ==
    /\ pc = "returned" =>
        /\ (sampler.err # "nil") = Rejected
        /\ sampler.sampler.isNil = Rejected
        /\ Rejected => sampler.sampler = NilSampler
    /\ op = "RandomNameFromAggregate" =>
        /\ (pickRes.err # "nil") = Rejected
        /\ Rejected => pickRes.entry = ZeroNameCount
    /\ (op = "Pick" /\ Len(sampler.sampler.entries) = 0) =>
        /\ pickRes.err # "nil"
        /\ pickRes.entry = ZeroNameCount

C10_Witness ==
    /\ op = "Pick"
    /\ Weights = <<0, 0>>
    /\ sampler.err = "no probability mass available"
    /\ pickRes.err = "no matching records"

\* C11: Pick on a built sampler takes exactly two values from the random
\* source, first Intn(n) giving i in [0, n), then Float64() giving u in [0, 1),
\* and returns entries[i] when u < prob[i] and entries[alias[i]] otherwise.
C11_PickTwoDraws ==
    (op = "Pick" /\ Built) =>
        /\ Len(drawn) = 2
        /\ drawn[1].fn = "Intn"
        /\ drawn[1].n = Len(aggregated)
        /\ drawn[1].val \in 0..(Len(aggregated) - 1)
        /\ drawn[2].fn = "Float64"
        /\ drawn[2].val \in 0..(total - 1)
        /\ LET i == drawn[1].val + 1
               u == drawn[2].val
           IN  pickRes = PickResult(IF u < prob[i] THEN aggregated[i]
                                                   ELSE aggregated[alias[i]], "nil")

C11_Witness ==
    /\ op = "Pick" /\ Built
    /\ Weights = <<1, 3>>
    /\ drawn = <<Draw("Intn", 2, 0), Draw("Float64", 1, 2)>>
    /\ prob[1] = 2 /\ alias[1] = 2
    /\ pickRes = PickResult(aggregated[2], "nil")

\* C12: Pick leaves the sampler as NewNameSampler built it: after any number
\* of Pick calls entries, prob, alias and total are the values NewNameSampler
\* ended with, so a later Pick returns for its two random values what the
\* first Pick would return for them.
C12_PickLeavesSampler ==
    (Built /\ picks > 0) =>
        /\ sampler.sampler = NameSampler(aggregated, prob, alias, total)
        /\ pickRes = Pick(NameSampler(aggregated, prob, alias, total),
                          drawn[1].val + 1, drawn[2].val)

C12_Witness ==
    /\ Built /\ picks = 2
    /\ Weights = <<1, 3>>
    /\ drawn = <<Draw("Intn", 2, 0), Draw("Float64", 1, 1)>>
    /\ pickRes = PickResult(aggregated[1], "nil")
    /\ sampler.sampler.prob = <<2, 4>>

\* The cumulative count of the first i entries.
Cumulative(i) == SumOver(Weights, 1..i)

\* C13: RandomNameFromAggregateWithTotal, given a list that is not empty and
\* the sum of its counts as total, draws one integer p in [0, total) and
\* returns the first entry whose cumulative count exceeds p (for counts 2, 3:
\* p = 1 gives the first entry, p = 4 the second); it fails, drawing nothing,
\* when the list is empty or total <= 0.
C13_ScanFirstExceeding ==
    op = "RandomNameFromAggregateWithTotal" =>
        IF Len(aggregated) = 0 \/ total <= 0
        THEN /\ pickRes.err # "nil"
             /\ pickRes.entry = ZeroNameCount
             /\ drawn = <<>>
        ELSE total = WeightSum =>
             /\ Len(drawn) = 1
             /\ drawn[1].fn = "Intn"
             /\ drawn[1].n = total
             /\ drawn[1].val \in 0..(total - 1)
             /\ \E i \in 1..Len(aggregated) :
                    /\ Cumulative(i) > drawn[1].val
                    /\ \A j \in 1..(i - 1) : Cumulative(j) <= drawn[1].val
                    /\ pickRes = PickResult(aggregated[i], "nil")
             /\ (Weights = <<2, 3>> /\ drawn[1].val = 1) => pickRes.entry = NameCount(sA, 2)
             /\ (Weights = <<2, 3>> /\ drawn[1].val = 4) => pickRes.entry = NameCount(sB, 3)

C13_Witness ==
    /\ op = "RandomNameFromAggregateWithTotal"
    /\ Weights = <<2, 3>>
    /\ total = 5
    /\ drawn = <<Draw("Intn", 5, 4)>>
    /\ pickRes = PickResult(NameCount(sB, 3), "nil")

\* C14: a sampler NewNameSampler returns for n entries has entries, prob and
\* alias of length n, entries equal to the input in its order, total equal to
\* the sum of the counts, every prob[i] in [0, 1] and every alias[i] an index
\* of the list.
C14_SamplerShape ==
    Built =>
        LET s == sampler.sampler
            n == Len(aggregated)
        IN  /\ ~s.isNil
            /\ Len(s.entries) = n /\ Len(s.prob) = n /\ Len(s.alias) = n
            /\ s.entries = aggregated
            /\ s.total = WeightSum
            /\ \A i \in 1..n : 0 <= s.prob[i] /\ s.prob[i] <= s.total
            /\ \A i \in 1..n : s.alias[i] \in 1..n

C14_Witness ==
    /\ Built
    /\ Weights = <<2, 3, 3>>
    /\ sampler.sampler.total = 8
    /\ \E i \in 1..3 : sampler.sampler.prob[i] < 8 /\ sampler.sampler.alias[i] # i

\* A list with a single entry of positive count.
SingleEntry == Len(aggregated) = 1 /\ aggregated[1].Count > 0

\* C15: for a single entry of positive count NewNameSampler never enters the
\* pairing loop and ends with prob[0] = 1 and alias[0] = 0 (index 1 here and
\* total as the numerator of 1); Pick and both scans return that entry for
\* every random value; total, the divisor, is positive and every index used
\* is the entry's.
C15_SingleEntry ==
    SingleEntry =>
        /\ pc = "pairing" => (~(Len(small) > 0 /\ Len(large) > 0) /\ total > 0)
        /\ pc = "returned" =>
            /\ sampler.err = "nil"
            /\ sampler.sampler.prob = <<sampler.sampler.total>>
            /\ sampler.sampler.alias = <<1>>
            /\ \A cell \in 0..(sampler.sampler.total - 1) :
                   Pick(sampler.sampler, 1, cell) = PickResult(aggregated[1], "nil")
        /\ \A p \in 0..(WeightSum - 1) :
            /\ RandomNameFromAggregate(aggregated, p) = PickResult(aggregated[1], "nil")
            /\ RandomNameFromAggregateWithTotal(aggregated, WeightSum, p) =
                   PickResult(aggregated[1], "nil")
        /\ (op \in {"Pick", "RandomNameFromAggregate"}
               \/ (op = "RandomNameFromAggregateWithTotal" /\ total > 0)) =>
            /\ pickRes = PickResult(aggregated[1], "nil")
            /\ \A k \in 1..Len(drawn) : drawn[k].fn = "Intn" => drawn[k].val < drawn[k].n

C15_Witness ==
    /\ SingleEntry
    /\ op = "Pick"
    /\ Weights = <<3>>
    /\ sampler.sampler.prob = <<3>>
    /\ drawn = <<Draw("Intn", 1, 0), Draw("Float64", 1, 2)>>
    /\ pickRes = PickResult(aggregated[1], "nil")

(***************************************************************************)
(* Properties of Trend                                                     *)
(***************************************************************************)
\* C6: whatever order the maps are iterated in, Trend returns the years, the
\* series (names and points) and the totals it returned.
C6_TrendDeterministic ==
    op = "Trend" =>
        \A ord \in TrendOrders(Yearly(records, gender)) :
            Trend(records, gender, names, ord) = trendRes

\* The names Trend was asked for, in upper case: one per series it returns.
RequestedKeys ==
    LET requested == RequestedLoop(names, 1, {}, <<>>)
    IN  [k \in 1..Len(requested) |-> requested[k].Key]

TrendOk == op = "Trend" /\ trendRes.err = "nil"

\* The count of the name with upper-cased form key in year y under the gender filter.
YearCount(key, y) ==
    LET Mine(r) == r.Year = y /\ ToUpper(r.Name) = key /\ PassesFilters(r)
    IN  SumCounts(SelectSeq(records, Mine))

\* Some passing record of year y has the name with upper-cased form key.
YearCountKeys(key, y) ==
    \E i \in 1..Len(records) :
        /\ records[i].Year = y
        /\ ToUpper(records[i].Name) = key
        /\ PassesFilters(records[i])

\* C18: for each requested name and each returned year the point has
\* Present = true, Count > 0 and Rank >= 1 when the name's aggregated count of
\* that year under the gender filter is not zero, and Present = false,
\* Rank = 0, Count = 0 otherwise; so Present holds exactly when Count > 0.
C18_PresentIffPositive ==
    TrendOk =>
        \A k \in 1..Len(trendRes.series), j \in 1..Len(trendRes.years) :
            LET pt == trendRes.series[k].Points[j]
            IN  /\ IF YearCount(RequestedKeys[k], trendRes.years[j]) # 0
                   THEN pt.Present /\ pt.Count > 0 /\ pt.Rank >= 1
                   ELSE ~pt.Present /\ pt.Rank = 0 /\ pt.Count = 0
                /\ pt.Present <=> pt.Count > 0

\* C19: for every requested name and every returned year Y the point's
\* Present, Count and Rank are what AggregateNames(records, Y, gender) and its
\* rank map give for the name, whatever order its map is ranged in: the
\* position and the total in the aggregate of year Y alone.
C19_PointsMatchAggregate ==
    TrendOk =>
        \A k \in 1..Len(trendRes.series), j \in 1..Len(trendRes.years) :
            \A order \in RangeOrders(TotalsKeys(records, trendRes.years[j], gender)) :
                LET pt == trendRes.series[k].Points[j]
                    out == AggregateNames(records, trendRes.years[j], gender, order)
                    key == RequestedKeys[k]
                IN  IF key \in DOMAIN out.ranks
                    THEN /\ pt.Present
                         /\ pt.Rank = out.ranks[key]
                         /\ pt.Count = out.aggregated[out.ranks[key]].Count
                    ELSE ~pt.Present /\ pt.Rank = 0 /\ pt.Count = 0

C19_Witness ==
    /\ TrendOk
    /\ Len(records) = 2
    /\ records[1].Name = sB /\ records[1].Year = 2020 /\ records[1].Count = 1
    /\ records[2].Name = sa /\ records[2].Year = 2020 /\ records[2].Count = 1
    /\ gender = sEmpty
    /\ names = <<sa, sB, sA>>
    /\ trendRes.years = <<2020>>
    /\ trendRes.series[1].Points = <<TrendPoint(2020, 2, 1, TRUE)>>
    /\ trendRes.series[2].Points = <<TrendPoint(2020, 1, 1, TRUE)>>

\* C20: in every successful Trend call every series has exactly len(years)
\* points and its k-th point has Year = years[k].
C20_SharedYearAxis ==
    TrendOk =>
        \A k \in 1..Len(trendRes.series) :
            /\ Len(trendRes.series[k].Points) = Len(trendRes.years)
            /\ \A j \in 1..Len(trendRes.years) :
                   trendRes.series[k].Points[j].Year = trendRes.years[j]

C20_Witness ==
    /\ TrendOk
    /\ trendRes.years = <<2018, 2020>>
    /\ Len(trendRes.series) = 2
    /\ ~trendRes.series[1].Points[1].Present /\ trendRes.series[1].Points[2].Present
    /\ trendRes.series[2].Points[1].Present /\ ~trendRes.series[2].Points[2].Present

\* The years of the records that pass the gender filter.
PassingYears == {records[i].Year : i \in {j \in 1..Len(records) : PassesFilters(records[j])}}

\* The sum of the counts of the passing records of year y.
YearTotal(y) ==
    LET Mine(r) == r.Year = y /\ PassesFilters(r)
    IN  SumCounts(SelectSeq(records, Mine))

\* C21: totals has exactly the returned years as keys, and totals[Y] is the
\* sum of the counts of the gender-passing records of year Y, which is the
\* sum of the counts of the year-Y aggregate list.
C21_TotalsPerYear ==
    TrendOk =>
        /\ DOMAIN trendRes.totals = {trendRes.years[j] : j \in 1..Len(trendRes.years)}
        /\ \A y \in DOMAIN trendRes.totals :
            /\ trendRes.totals[y] = YearTotal(y)
            /\ \A order \in RangeOrders(TotalsKeys(records, y, gender)) :
                   trendRes.totals[y] = SumCounts(AggregateNames(records, y, gender, order).aggregated)

C21_Witness ==
    /\ TrendOk
    /\ Len(records) = 2
    /\ records[1].Name = sa /\ records[2].Name = sA
    /\ trendRes.years = <<2020>>
    /\ trendRes.totals[2020] = 2

\* C22: the returned years are exactly the distinct years of the records
\* passing the gender filter, strictly ascending: no duplicate, and no year
\* between two present years added.
C22_YearsSortedSet ==
    TrendOk =>
        /\ {trendRes.years[j] : j \in 1..Len(trendRes.years)} = PassingYears
        /\ \A j \in 1..(Len(trendRes.years) - 1) : trendRes.years[j] < trendRes.years[j + 1]

C22_Witness ==
    /\ TrendOk
    /\ Len(records) = 2
    /\ records[1].Year = 2020 /\ records[2].Year = 2018
    /\ trendRes.years = <<2018, 2020>>

\* The distinct upper-cased trimmed names of the request, in order of first occurrence.
RECURSIVE FirstKeys(_)
FirstKeys(raws) ==
    IF raws = <<>> THEN <<>>
    ELSE LET before == FirstKeys(SubSeq(raws, 1, Len(raws) - 1))
             key == ToUpper(TrimSpace(raws[Len(raws)]))
         IN  IF Blank(raws[Len(raws)]) \/ \E k \in 1..Len(before) : before[k] = key
             THEN before
             ELSE Append(before, key)

\* The first request whose trimmed upper-cased form is key, trimmed.
FirstInput(key) ==
    LET first == CHOOSE i \in 1..Len(names) :
                    /\ ToUpper(TrimSpace(names[i])) = key
                    /\ \A j \in 1..(i - 1) : ToUpper(TrimSpace(names[j])) # key
    IN  TrimSpace(names[first])

\* The name with upper-cased form key occurs in some passing record.
InData(key) ==
    \E i \in 1..Len(records) : PassesFilters(records[i]) /\ ToUpper(records[i].Name) = key

\* C23: Trend returns one series per distinct requested name after trimming
\* and upper-casing, in order of first occurrence: blank requests are
\* skipped, a later request differing only in case or surrounding white space
\* is dropped, and the request kept is the first seen, whose casing names the
\* series when the data gives the name no casing.
C23_SeriesPerRequest ==
    TrendOk =>
        /\ RequestedKeys = FirstKeys(names)
        /\ Len(trendRes.series) = Len(FirstKeys(names))
        /\ \A k \in 1..Len(trendRes.series) :
            /\ ToUpper(trendRes.series[k].Name) = FirstKeys(names)[k]
            /\ ~InData(FirstKeys(names)[k]) =>
                   trendRes.series[k].Name = FirstInput(FirstKeys(names)[k])
            /\ \A j \in 1..Len(trendRes.years) :
                   trendRes.series[k].Points[j].Present =
                       (YearCountKeys(FirstKeys(names)[k], trendRes.years[j]))

C23_Witness ==
    /\ TrendOk
    /\ names = <<sSpASp, sa, sC>>
    /\ \A i \in 1..Len(records) : records[i].Name = sB
    /\ Len(trendRes.series) = 2
    /\ trendRes.series[1].Name = sA
    /\ trendRes.series[2].Name = sC

\* C24: Trend fails, returning no years, series or totals, exactly when the
\* request has no name that is not blank or no record passes the gender
\* filter; the empty request is reported first; otherwise Trend succeeds.
C24_TrendErrors ==
    op = "Trend" =>
        LET noNames == \A i \in 1..Len(names) : Blank(names[i])
            noRecords == PassingYears = {}
        IN  /\ (trendRes.err # "nil") = (noNames \/ noRecords)
            /\ noNames => trendRes.err = "at least one name is required"
            /\ (noRecords /\ ~noNames) => trendRes.err = "no matching records"
            /\ trendRes.err # "nil" =>
                   trendRes.years = <<>> /\ trendRes.series = <<>> /\ trendRes.totals = EmptyMap

C24_Witness ==
    /\ op = "Trend"
    /\ names = <<sSpace>>
    /\ Len(records) = 1
    /\ gender = sM /\ records[1].Gender = sF
    /\ trendRes.err = "at least one name is required"

\* C26: every point with Present = true of year Y has totals[Y] > 0 and
\* 0 <= Count <= totals[Y], so that Count / totals[Y] is defined and in [0, 1].
C26_ShareDefined ==
    TrendOk =>
        \A k \in 1..Len(trendRes.series), j \in 1..Len(trendRes.years) :
            LET pt == trendRes.series[k].Points[j]
            IN  pt.Present =>
                    /\ trendRes.totals[pt.Year] > 0
                    /\ 0 <= pt.Count
                    /\ pt.Count <= trendRes.totals[pt.Year]

(***************************************************************************)
(* Properties of TopNames and AggregateFromFS                              *)
(***************************************************************************)
\* The list AggregateNames returns for the filters of the last call; the
\* order of its range loop does not show after the sort.
AggregatedList ==
    AggregateNames(records, year, gender,
                   CHOOSE o \in RangeOrders(TotalsKeys(records, year, gender)) : TRUE).aggregated

\* C25: whenever a record passes the filters, AggregateFromFS succeeds and
\* returns the list AggregateNames returns for the same records and filters,
\* entry for entry and in the same order, with total the sum of its counts.
C25_FSMatchesAggregateNames ==
    (op = "AggregateFromFS" /\ TotalsKeys(records, year, gender) # {}) =>
        /\ fsRes.err = "nil"
        /\ \A o \in RangeOrders(TotalsKeys(records, year, gender)) :
               fsRes.aggregated = AggregateNames(records, year, gender, o).aggregated
        /\ fsRes.total = CountSum(fsRes.aggregated, 1)

\* The same, over datasets whose matching records all have a positive count.
C25_FSMatchesOnPositiveCounts ==
    (\A i \in 1..Len(records) : records[i].Count > 0) => C25_FSMatchesAggregateNames

C25_PositiveWitness ==
    /\ op = "AggregateFromFS"
    /\ Len(records) = 2
    /\ records[1].Name = sa /\ records[2].Name = sA
    /\ Len(fsRes.aggregated) = 1
    /\ fsRes.total = 2

\* C28: TopNames returns the first min(limit, N) entries of the AggregateNames
\* list of N entries when limit > 0 and the whole list when limit <= 0, and no
\* omitted entry has a larger Count than a returned one.
C28_TopNamesPrefix ==
    op = "TopNames" =>
        LET agg == AggregatedList
            N == Len(agg)
            kept == IF limit > 0 THEN (IF limit < N THEN limit ELSE N) ELSE N
        IN  /\ \A o \in RangeOrders(TotalsKeys(records, year, gender)) :
                   AggregateNames(records, year, gender, o).aggregated = agg
            /\ topNames = SubSeq(agg, 1, kept)
            /\ \A i \in 1..kept, j \in (kept + 1)..N : agg[i].Count >= agg[j].Count

C28_Witness ==
    /\ op = "TopNames"
    /\ limit = 1
    /\ Len(AggregatedList) = 2
    /\ Len(topNames) = 1
    /\ topNames[1].Count > AggregatedList[2].Count

C28_WitnessNoLimit ==
    /\ op = "TopNames"
    /\ limit = 0
    /\ Len(topNames) = 2

(***************************************************************************)
(* Properties of the pairing loop of NewNameSampler                        *)
(***************************************************************************)
Constructing == pc = "pairing"
Constructed == pc = "returned" /\ sampler.err = "nil"

OnWorklists(i) ==
    \/ \E k \in 1..Len(small) : small[k] = i
    \/ \E k \in 1..Len(large) : large[k] = i

RECURSIVE ScaledSum(_, _)
ScaledSum(list, k) == IF k > Len(list) THEN 0 ELSE scaled[list[k]] + ScaledSum(list, k + 1)

\* C29: after k iterations of the pairing loop the two worklists hold n - k
\* indices, so the loop ends within n - 1 iterations; during the loop prob[i]
\* has been assigned once for the indices off the worklists and not at all
\* for those on them, and after the drain every prob[i] has been assigned
\* exactly once.
C29_PairingTerminates ==
    (Constructing \/ Constructed) =>
        LET n == Len(aggregated)
        IN  /\ Len(small) + Len(large) = n - iters
            /\ iters <= n - 1
            /\ Constructing =>
                   \A i \in 1..n : probSet[i] = IF OnWorklists(i) THEN 0 ELSE 1
            /\ Constructed => \A i \in 1..n : probSet[i] = 1

C29_Witness ==
    /\ Constructed
    /\ Len(aggregated) >= 3
    /\ iters = Len(aggregated) - 1
    /\ \A i \in 1..Len(aggregated) : probSet[i] = 1

\* C30: throughout the construction the scaled values of the indices on the
\* two worklists are >= 0 and sum to the number of those indices (scaled
\* values are carried times total); when the loop has ended, small is empty
\* and every index on large has scaled value exactly 1, which is the prob the
\* drain gives it.
C30_WorklistMass ==
    (Constructing \/ Constructed) =>
        /\ \A i \in 1..Len(aggregated) : OnWorklists(i) => scaled[i] >= 0
        /\ ScaledSum(small, 1) + ScaledSum(large, 1) = (Len(small) + Len(large)) * total
        /\ ~(Len(small) > 0 /\ Len(large) > 0) =>
               /\ small = <<>>
               /\ \A k \in 1..Len(large) : scaled[large[k]] = total
        /\ Constructed => \A k \in 1..Len(large) : sampler.sampler.prob[large[k]] = scaled[large[k]]

C30_Witness ==
    /\ Constructed
    /\ iters >= 2
    /\ small = <<>>
    /\ Len(large) = 1
    /\ \E i \in 1..Len(aggregated) : aggregated[i].Count = 0
    /\ scaled[large[1]] = total

C30_WitnessMidLoop ==
    /\ Constructing
    /\ iters = 1
    /\ Len(small) = 2 /\ Len(large) = 1

====
